---- MODULE Spec2Model ----
(***************************************************************************)
(* A model of midi2performance (src/src/lib.rs):                           *)
(*   - merge_parallel_tracks, the track linearizer          (SpecMerge)    *)
(*   - event_to_index / index_to_event, the vocabulary codec (SpecCodec)   *)
(*   - midi_to_events of lib.rs, the event encoder           (Spec)        *)
(*   - ticks_to_timeshift and the ticks_per_sec expression   (SpecArith)   *)
(*   - midi_to_events of main.rs, the binary's encoder       (SpecMain)    *)
(* Each specification drives one part; the variables of the other parts    *)
(* stay at their idle values.                                              *)
(***************************************************************************)
EXTENDS Integers, Sequences, FiniteSets, TLC

VARIABLES
    \* merge_parallel_tracks
    tracks,          \* the argument: a sequence of tracks
    merged,          \* the returned track
    mpc,             \* "idle" | "call" | "return" | "panic"
    \* the codec
    idx,             \* the i16 handed to index_to_event
    decoded,         \* the Result index_to_event returned
    index,           \* what event_to_index returned for the decoded event
    cpc,             \* "idle" | "call" | "decoded" | "encoded"
    \* midi_to_events (lib.rs)
    smf,             \* the header of the file and the first Tempo of its stream
    ticks_per_sec,
    is_pedal_down,
    events,          \* the output Vec<PerformanceEvent>
    sustained_notes,
    notes_on,
    previous_ticks,
    event,           \* the track event of the current loop iteration
    events_len_start,
    epc,             \* "idle" | "start" | "loop" | "returned" | "panic"
    \* the u32 arithmetic
    fn,              \* the expression evaluated
    args,            \* its two u32 operands
    ret,             \* what the evaluation gave
    apc              \* "idle" | "call" | "done"

mergeVars == <<tracks, merged, mpc>>
codecVars == <<idx, decoded, index, cpc>>
encVars == <<smf, ticks_per_sec, is_pedal_down, events, sustained_notes, notes_on,
             previous_ticks, event, events_len_start, epc>>
arithVars == <<fn, args, ret, apc>>
vars == <<tracks, merged, mpc, idx, decoded, index, cpc, smf, ticks_per_sec,
          is_pedal_down, events, sustained_notes, notes_on, previous_ticks, event,
          events_len_start, epc, fn, args, ret, apc>>

(***************************************************************************)
(* Machine integers.  TLC's integers are 32-bit signed, so a u32 is kept   *)
(* as two 16-bit limbs, value = hi * 2^16 + lo.  A tick count that is not  *)
(* reduced modulo 2^32 has the same shape with hi >= 2^16.                 *)
(***************************************************************************)
Limb == 65536
\* midly's u28: a track event's delta; From<u32> keeps the low 28 bits.
U28 == 268435456
I16Min == -32768
I16Max == 32767

Wide(hi, lo) == [hi |-> hi, lo |-> lo]
\* the exact sum of a wide number and an integer 0 <= d < 2^31
WideAdd(t, d) ==
    LET lo == t.lo + (d % Limb)
    IN  Wide(t.hi + (d \div Limb) + (lo \div Limb), lo % Limb)
WideLe(a, b) == a.hi < b.hi \/ (a.hi = b.hi /\ a.lo <= b.lo)
\* (a - b) modulo 2^28, for a >= b
WideSubU28(a, b) == ((((a.hi - b.hi) % (U28 \div Limb)) * Limb) + (a.lo - b.lo)) % U28
\* the u32 a wide number wraps to
WrapU32(t) == Wide(t.hi % Limb, t.lo)
FitsU32(t) == t.hi < Limb

(***************************************************************************)
(* Track events: TrackEvent { delta, kind }.                               *)
(***************************************************************************)
TrackEvent(delta, kind) == [delta |-> delta, kind |-> kind]

NoteOnMsg(key, vel) == [type |-> "NoteOn", d1 |-> key, d2 |-> vel]
NoteOffMsg(key, vel) == [type |-> "NoteOff", d1 |-> key, d2 |-> vel]
ControllerMsg(controller, value) == [type |-> "Controller", d1 |-> controller, d2 |-> value]
MetaMsg == [type |-> "Meta", d1 |-> 0, d2 |-> 0]

(***************************************************************************)
(* merge_parallel_tracks (lib.rs 52-73).                                   *)
(***************************************************************************)
\* line 58, `t += delta` on a u32: the wrapped sum.
AddTicks(t, delta) == WrapU32(WideAdd(t, delta))

\* lines 55-60: the running u32 tick of one track, pushed with each event.
RECURSIVE TagTrack(_, _, _)
TagTrack(track, i, t) ==
    IF i > Len(track) THEN <<>>
    ELSE LET t2 == AddTicks(t, track[i].delta)
         IN  <<[event |-> track[i], t |-> t2]>> \o TagTrack(track, i + 1, t2)

\* line 58: does `t += delta` overflow u32 somewhere in this track?
RECURSIVE TrackOverflows(_, _, _)
TrackOverflows(track, i, t) ==
    /\ i <= Len(track)
    /\ \/ ~FitsU32(WideAdd(t, track[i].delta))
       \/ TrackOverflows(track, i + 1, WideAdd(t, track[i].delta))

Overflows(trks) == \E n \in 1..Len(trks) : TrackOverflows(trks[n], 1, Wide(0, 0))

\* lines 53-61: combined_track, all tracks' tagged events in track order.
RECURSIVE CombinedTrack(_, _)
CombinedTrack(trks, n) ==
    IF n > Len(trks) THEN <<>>
    ELSE TagTrack(trks[n], 1, Wide(0, 0)) \o CombinedTrack(trks, n + 1)

\* line 62: sort_by_key(|v| v.1) is a stable sort; an element is placed after
\* every earlier element whose key is not greater.
InsertByKey(sorted, x) ==
    LET n == Cardinality({i \in 1..Len(sorted) : WideLe(sorted[i].t, x.t)})
    IN  SubSeq(sorted, 1, n) \o <<x>> \o SubSeq(sorted, n + 1, Len(sorted))

RECURSIVE SortByKey(_)
SortByKey(s) ==
    IF s = <<>> THEN <<>>
    ELSE InsertByKey(SortByKey(SubSeq(s, 1, Len(s) - 1)), s[Len(s)])

\* lines 63-71: the deltas re-derived from consecutive ticks, cast to u28.
Redelta(sorted) ==
    [i \in 1..Len(sorted) |->
        LET prev_t == IF i = 1 THEN Wide(0, 0) ELSE sorted[i - 1].t
        IN  TrackEvent(WideSubU28(sorted[i].t, prev_t), sorted[i].event.kind)]

merge_parallel_tracks(trks) == Redelta(SortByKey(CombinedTrack(trks, 1)))

(***************************************************************************)
(* Inputs of the linearizer.                                               *)
(***************************************************************************)
MaxTracks == 3
MaxTrackLen == 2
MergeDeltas == {0, 1, 2}
MergeKinds == {MetaMsg, NoteOnMsg(60, 80)}
MergeEvents == {TrackEvent(d, k) : d \in MergeDeltas, k \in MergeKinds}
ShortTracks == UNION {[1..n -> MergeEvents] : n \in 0..MaxTrackLen}
\* The shortest tracks of maximal deltas whose total reaches 2^32, and the
\* longest that stays below it.
\* 2^32 \div 2^28 events of delta 2^28 - 1 stay below 2^32, one more does not.
LongLen == (Limb \div (U28 \div Limb)) + 1
LongTracks == {[i \in 1..n |-> TrackEvent(U28 - 1, NoteOnMsg(60, 80))] : n \in {LongLen - 1, LongLen}}
\* Up to MaxTracks short tracks, or a long track alone or beside a short one.
TrackLists ==
    UNION {[1..n -> ShortTracks] : n \in 0..MaxTracks}
        \cup {<<l>> : l \in LongTracks}
        \cup {<<a, l>> : a \in ShortTracks, l \in LongTracks}
        \cup {<<l, a>> : a \in ShortTracks, l \in LongTracks}

NoReturn == [tag |-> "none", v |-> 0]
ArithIdle == fn = "none" /\ args = <<0, 0>> /\ ret = NoReturn /\ apc = "idle"
MergeIdle == tracks = <<>> /\ merged = <<>> /\ mpc = "idle"
CodecIdle == idx = 0 /\ decoded = [tag |-> "None", event |-> [type |-> "None", v |-> 0]] /\ index = 0 /\ cpc = "idle"

NoEvent == [delta |-> 0, kind |-> [type |-> "None", d1 |-> 0, d2 |-> 0]]
NoHeader == [timing |-> "None", format |-> "None", ticks_per_beat |-> 0, tempo |-> -1]
EncIdle ==
    /\ smf = NoHeader /\ ticks_per_sec = 0 /\ is_pedal_down = FALSE /\ events = <<>>
    /\ sustained_notes = {} /\ notes_on = {} /\ previous_ticks = 0
    /\ event = NoEvent /\ events_len_start = 0
    /\ epc = "idle"

MergeInit ==
    /\ tracks \in TrackLists
    /\ merged = <<>>
    /\ mpc = "call"
    /\ CodecIdle
    /\ EncIdle
    /\ ArithIdle

\* The call: a debug build panics at an overflowing `t += delta`, a release
\* build wraps.
MergeParallelTracks ==
    /\ mpc = "call"
    /\ \E overflow_checks \in BOOLEAN :
        IF overflow_checks /\ Overflows(tracks)
        THEN mpc' = "panic" /\ merged' = <<>>
        ELSE mpc' = "return" /\ merged' = merge_parallel_tracks(tracks)
    /\ UNCHANGED <<tracks, codecVars, encVars, arithVars>>

MergeNext == MergeParallelTracks
SpecMerge == MergeInit /\ [][MergeNext]_vars

(***************************************************************************)
(* Claims about the linearizer.                                            *)
(***************************************************************************)
\* The exact (unwrapped) absolute tick of the i-th event of a track.
RECURSIVE AbsTick(_, _)
AbsTick(track, i) ==
    IF i = 0 THEN Wide(0, 0) ELSE WideAdd(AbsTick(track, i - 1), track[i].delta)
TotalTicks(track) == AbsTick(track, Len(track))
WideLt(a, b) == WideLe(a, b) /\ a # b
\* a - b for wide numbers less than 2^31 apart
WideDiff(a, b) == (a.hi - b.hi) * Limb + (a.lo - b.lo)
Returned == mpc = "return"
Called == mpc \in {"return", "panic"}

\* C1: merge_parallel_tracks applied to a one-element track list returns
\* exactly that track, for every track.
C1_SingleTrackIdentity ==
    (Len(tracks) = 1 /\ Called) => (Returned /\ merged = tracks[1])

\* C1 restricted to tracks whose total duration is below 2^32 (no overflow at
\* line 58): the identity holds there.
C1_IdentityWithinU32 ==
    (Len(tracks) = 1 /\ Called /\ ~Overflows(tracks)) => (Returned /\ merged = tracks[1])

\* Is the input a pair [A, B'] with B' = B shifted by A's total duration?
IsShiftedPair ==
    /\ Len(tracks) = 2
    /\ Len(tracks[2]) >= 1
    /\ WideLe(TotalTicks(tracks[1]), Wide(0, tracks[2][1].delta))
\* B: the second track with its first delta reduced by the first track's total.
UnshiftedB ==
    [tracks[2] EXCEPT ![1].delta = WideDiff(Wide(0, tracks[2][1].delta), TotalTicks(tracks[1]))]

\* C2: for every track A and non-empty track B, merging [A, B'] gives A
\* followed by B, where B' is B with its first delta increased by A's total.
C2_ShiftedConcat ==
    (IsShiftedPair /\ Called) => (Returned /\ merged = tracks[1] \o UnshiftedB)

\* C2 restricted to inputs without overflow at line 58.
C2_ConcatWithinU32 ==
    (IsShiftedPair /\ Called /\ ~Overflows(tracks)) =>
        (Returned /\ merged = tracks[1] \o UnshiftedB)

\* The reference linearization: the input positions <<track, place>> ordered by
\* exact absolute tick, then track index, then place in the track.
InputPositions == UNION {{<<n, i>> : i \in 1..Len(tracks[n])} : n \in 1..Len(tracks)}
TickAt(p) == AbsTick(tracks[p[1]], p[2])
RefBefore(q, p) ==
    \/ WideLt(TickAt(q), TickAt(p))
    \/ TickAt(q) = TickAt(p) /\ (q[1] < p[1] \/ (q[1] = p[1] /\ q[2] < p[2]))
RefRank(p) == Cardinality({q \in InputPositions : RefBefore(q, p)}) + 1
RefPrevTick(p) ==
    IF RefRank(p) = 1 THEN Wide(0, 0)
    ELSE TickAt(CHOOSE q \in InputPositions : RefRank(q) = RefRank(p) - 1)
IsReferenceLinearization(out) ==
    /\ Len(out) = Cardinality(InputPositions)
    /\ \A p \in InputPositions :
        out[RefRank(p)] =
            TrackEvent(WideDiff(TickAt(p), RefPrevTick(p)), tracks[p[1]][p[2]].kind)

\* C3: for every list of tracks the output is the reference linearization:
\* all events, ordered by absolute tick, ties by track index then place, each
\* delta the distance to the previous output event's absolute tick.
C3_ReferenceLinearization ==
    Called => (Returned /\ IsReferenceLinearization(merged))

\* C3 restricted to inputs without overflow at line 58.
C3_ReferenceWithinU32 ==
    (Called /\ ~Overflows(tracks)) => (Returned /\ IsReferenceLinearization(merged))

(***************************************************************************)
(* The vocabulary codec (lib.rs 28-50).                                    *)
(***************************************************************************)
PerformanceEvent(type, v) == [type |-> type, v |-> v]
Ok(e) == [tag |-> "Ok", event |-> e]
Err == [tag |-> "Err", event |-> [type |-> "None", v |-> 0]]

\* Rust's integer division truncates toward zero.
RustDiv(a, b) == IF a >= 0 THEN a \div b ELSE -((-a) \div b)

event_to_index(e) ==
    CASE e.type = "NoteOn" -> e.v
      [] e.type = "NoteOff" -> e.v + 128
      [] e.type = "TimeShift" -> e.v + 256
      [] e.type = "Velocity" -> RustDiv(e.v, 4) + 356

\* index_to_event with the last range one too wide.
index_to_event_wide(i) ==
    IF i >= 0 /\ i < 128 THEN Ok(PerformanceEvent("NoteOn", i))
    ELSE IF i >= 128 /\ i < 256 THEN Ok(PerformanceEvent("NoteOff", i - 128))
    ELSE IF i >= 256 /\ i < 356 THEN Ok(PerformanceEvent("TimeShift", i - 256))
    ELSE IF i >= 356 /\ i <= 388 THEN Ok(PerformanceEvent("Velocity", i - 356))
    ELSE Err

index_to_event(i) ==
    IF i >= 0 /\ i < 128 THEN Ok(PerformanceEvent("NoteOn", i))
    ELSE IF i >= 128 /\ i < 256 THEN Ok(PerformanceEvent("NoteOff", i - 128))
    ELSE IF i >= 256 /\ i < 356 THEN Ok(PerformanceEvent("TimeShift", i - 256))
    ELSE IF i >= 356 /\ i < 388 THEN Ok(PerformanceEvent("Velocity", i - 356))
    ELSE Err

CodecInit ==
    /\ idx \in I16Min..I16Max
    /\ decoded = [tag |-> "None", event |-> [type |-> "None", v |-> 0]]
    /\ index = 0
    /\ cpc = "call"
    /\ MergeIdle
    /\ EncIdle
    /\ ArithIdle

IndexToEvent ==
    /\ cpc = "call"
    /\ decoded' = index_to_event(idx)
    /\ cpc' = "decoded"
    /\ UNCHANGED <<idx, index, mergeVars, encVars, arithVars>>

EventToIndex ==
    /\ cpc = "decoded"
    /\ decoded.tag = "Ok"
    /\ index' = event_to_index(decoded.event)
    /\ cpc' = "encoded"
    /\ UNCHANGED <<idx, decoded, mergeVars, encVars, arithVars>>

CodecNext == IndexToEvent \/ EventToIndex
SpecCodec == CodecInit /\ [][CodecNext]_vars

(***************************************************************************)
(* midi_to_events of lib.rs (174-271).                                     *)
(***************************************************************************)
NoTempo == -1
Header(timing, format, ticks_per_beat, tempo) ==
    [timing |-> timing, format |-> format, ticks_per_beat |-> ticks_per_beat, tempo |-> tempo]

\* line 191: (ticks_per_beat as u32) * 1_000_000 overflows u32 from 4295 on.
MulMillionOverflows(ticks_per_beat) == ticks_per_beat > 4294
\* line 191 in u32: 1_000_000 = 64 * 15625, so the product modulo 2^32 is
\* 64 * q with q = (ticks_per_beat * 15625) mod 2^26, and its quotient by
\* us_per_beat is 64 * (q / us) + (64 * (q mod us)) / us.
TicksPerSec(ticks_per_beat, us_per_beat) ==
    LET q == (ticks_per_beat * 15625) % 67108864
    IN  64 * (q \div us_per_beat) + ((64 * (q % us_per_beat)) \div us_per_beat)

\* line 25, `ticks * 100`: the exact product of a u32 below 2^31 and 100.
Mul100(ticks) ==
    LET lo == (ticks % Limb) * 100
    IN  Wide((ticks \div Limb) * 100 + (lo \div Limb), lo % Limb)
Mul100Overflows(ticks) == ~FitsU32(Mul100(ticks))
\* line 25, `- 50` on a u32: it underflows below 50 and then wraps.
Sub50Underflows(w) == w.hi = 0 /\ w.lo < 50
WrappingSub50(w) ==
    IF Sub50Underflows(w) THEN Wide(Limb - 1, Limb - 50 + w.lo)
    ELSE IF w.lo >= 50 THEN Wide(w.hi, w.lo - 50)
    ELSE Wide(w.hi - 1, w.lo + Limb - 50)
\* line 25, `/ ticks_per_sec`: long division of a wide number by d, bit by
\* bit from bit i down; r < d is the running remainder, and 2r + b >= d is
\* tested as r >= d - r - b to stay within TLC's integers.  The quotient
\* must be below 2^31.
Bit(w, i) == IF i < 16 THEN (w.lo \div (2 ^ i)) % 2 ELSE (w.hi \div (2 ^ (i - 16))) % 2
RECURSIVE WideDivFrom(_, _, _, _, _)
WideDivFrom(w, d, i, q, r) ==
    IF i < 0 THEN q
    ELSE LET b == Bit(w, i)
             ge == r >= d - r - b
         IN  WideDivFrom(w, d, i - 1, 2 * q + (IF ge THEN 1 ELSE 0),
                         IF ge THEN r - (d - r - b) ELSE 2 * r + b)
WideDiv(w, d) == WideDivFrom(w, d, 46, 0, 0)

\* lines 23-26 as a release build computes them (wrapping u32), for ticks and
\* ticks_per_sec below 2^31 and ticks_per_sec >= 1.  While ticks * 100 fits
\* TLC's integers the u32 arithmetic is the plain one.
ticks_to_timeshift(ticks, tps) ==
    IF ticks >= 1 /\ ticks <= 21474836
    THEN (ticks * 100 - 50) \div tps
    ELSE WideDiv(WrappingSub50(WrapU32(Mul100(ticks))), tps)
\* lines 23-26 panic on a division by zero, and in a build with overflow
\* checks when the product or the difference leaves u32.
TimeshiftPanics(ticks, tps, overflow_checks) ==
    \/ tps = 0
    \/ overflow_checks /\ (Mul100Overflows(ticks) \/ Sub50Underflows(Mul100(ticks)))

\* The chunking loop without the overwrite arm: every chunk is appended.
RECURSIVE TimeLoop_always_appending(_, _, _, _, _, _)
TimeLoop_always_appending(evs, prev, ticks, ticks_chunk, tps, overflow_checks) ==
    IF ticks = 0 THEN [events |-> evs, ticks_chunk |-> ticks_chunk, panic |-> FALSE]
    ELSE LET chunk == IF ticks > tps THEN tps ELSE ticks
         IN  IF TimeshiftPanics(chunk, tps, overflow_checks)
             THEN [events |-> evs, ticks_chunk |-> ticks_chunk, panic |-> TRUE]
             ELSE LET time_event ==
                          PerformanceEvent("TimeShift", ticks_to_timeshift(chunk, tps))
                  IN  TimeLoop_always_appending(Append(evs, time_event),
                               0, ticks - chunk, chunk, tps, overflow_checks)

\* lines 207-220: the chunking loop.  It panics when ticks_to_timeshift
\* does (with ticks_per_sec = 0 the chunk is 0: 0 * 100 - 50 underflows, or
\* the division is by zero) and when it would overwrite the last event of an
\* empty output.
RECURSIVE TimeLoop(_, _, _, _, _, _)
TimeLoop(evs, prev, ticks, ticks_chunk, tps, overflow_checks) ==
    IF ticks = 0 THEN [events |-> evs, ticks_chunk |-> ticks_chunk, panic |-> FALSE]
    ELSE LET chunk == IF ticks > tps THEN tps ELSE ticks
         IN  IF TimeshiftPanics(chunk, tps, overflow_checks) \/ (prev # 0 /\ Len(evs) = 0)
             THEN [events |-> evs, ticks_chunk |-> ticks_chunk, panic |-> TRUE]
             ELSE LET time_event ==
                          PerformanceEvent("TimeShift", ticks_to_timeshift(chunk, tps))
                  IN  TimeLoop(IF prev = 0 THEN Append(evs, time_event)
                               ELSE [evs EXCEPT ![Len(evs)] = time_event],
                               0, ticks - chunk, chunk, tps, overflow_checks)

\* lines 200-223: the time step of one track event.
TimeStep(evs, prev, delta, tps, overflow_checks) ==
    IF delta > 0
    THEN LET r == TimeLoop(evs, prev, delta + prev, 0, tps, overflow_checks)
         IN  [events |-> r.events, previous_ticks |-> r.ticks_chunk, panic |-> r.panic]
    ELSE [events |-> evs, previous_ticks |-> prev, panic |-> FALSE]
\* The builds a time step can tell apart: with and without overflow checks
\* when `ticks * 100` can leave u32, one otherwise.
Builds(ticks) == IF Mul100Overflows(ticks) THEN BOOLEAN ELSE {FALSE}

\* The orders in which a HashSet may hand out its elements.
Orders(S) ==
    {f \in [1..Cardinality(S) -> S] : \A i, j \in 1..Cardinality(S) : i # j => f[i] # f[j]}

\* lines 252-256: a NoteOff for each sustained key that notes_on still holds.
RECURSIVE ReleaseSustained(_, _, _, _)
ReleaseSustained(order, i, evs, on) ==
    IF i > Len(order) THEN [events |-> evs, notes_on |-> on]
    ELSE IF order[i] \in on
    THEN ReleaseSustained(order, i + 1,
                          Append(evs, PerformanceEvent("NoteOff", order[i])), on \ {order[i]})
    ELSE ReleaseSustained(order, i + 1, evs, on)

Encoder(evs, pedal, sustained, on) ==
    [events |-> evs, is_pedal_down |-> pedal, sustained_notes |-> sustained, notes_on |-> on]

\* OnNoteOn releasing a key at once although the pedal is down.
OnNoteOn_ignoring_pedal(key, vel, evs) ==
    IF vel = 0
    THEN IF key \in notes_on
         THEN Encoder(Append(evs, PerformanceEvent("NoteOff", key)), is_pedal_down,
                      sustained_notes, notes_on \ {key})
         ELSE Encoder(evs, is_pedal_down, sustained_notes, notes_on)
    ELSE IF key \notin notes_on
         THEN Encoder(evs \o <<PerformanceEvent("Velocity", vel),
                               PerformanceEvent("NoteOn", key)>>,
                      is_pedal_down, sustained_notes, notes_on \cup {key})
         ELSE Encoder(evs, is_pedal_down, sustained_notes, notes_on)

\* OnNoteOn sustaining a released key whether or not it sounds (as main.rs 83-84).
OnNoteOn_sustaining_any(key, vel, evs) ==
    IF vel = 0
    THEN IF is_pedal_down
         THEN Encoder(evs, is_pedal_down, sustained_notes \cup {key}, notes_on)
         ELSE IF key \in notes_on
         THEN Encoder(Append(evs, PerformanceEvent("NoteOff", key)), is_pedal_down,
                      sustained_notes, notes_on \ {key})
         ELSE Encoder(evs, is_pedal_down, sustained_notes, notes_on)
    ELSE IF key \in sustained_notes
         THEN Encoder(evs \o <<PerformanceEvent("NoteOff", key),
                               PerformanceEvent("Velocity", vel),
                               PerformanceEvent("NoteOn", key)>>,
                      is_pedal_down, sustained_notes \ {key}, notes_on)
         ELSE IF key \notin notes_on
         THEN Encoder(evs \o <<PerformanceEvent("Velocity", vel),
                               PerformanceEvent("NoteOn", key)>>,
                      is_pedal_down, sustained_notes, notes_on \cup {key})
         ELSE Encoder(evs, is_pedal_down, sustained_notes, notes_on)

\* OnNoteOn striking a sounding key again (no test of notes_on.insert).
OnNoteOn_retriggering(key, vel, evs) ==
    IF vel = 0
    THEN IF is_pedal_down /\ key \in notes_on
         THEN Encoder(evs, is_pedal_down, sustained_notes \cup {key}, notes_on)
         ELSE IF key \in notes_on
         THEN Encoder(Append(evs, PerformanceEvent("NoteOff", key)), is_pedal_down,
                      sustained_notes, notes_on \ {key})
         ELSE Encoder(evs, is_pedal_down, sustained_notes, notes_on)
    ELSE IF key \in sustained_notes
         THEN Encoder(evs \o <<PerformanceEvent("NoteOff", key),
                               PerformanceEvent("Velocity", vel),
                               PerformanceEvent("NoteOn", key)>>,
                      is_pedal_down, sustained_notes \ {key}, notes_on)
         ELSE Encoder(evs \o <<PerformanceEvent("Velocity", vel),
                               PerformanceEvent("NoteOn", key)>>,
                      is_pedal_down, sustained_notes, notes_on \cup {key})

\* lines 231-249: MidiMessage::NoteOn { key, vel }.
OnNoteOn(key, vel, evs) ==
    IF vel = 0
    THEN IF is_pedal_down /\ key \in notes_on
         THEN Encoder(evs, is_pedal_down, sustained_notes \cup {key}, notes_on)
         ELSE IF key \in notes_on
         THEN Encoder(Append(evs, PerformanceEvent("NoteOff", key)), is_pedal_down,
                      sustained_notes, notes_on \ {key})
         ELSE Encoder(evs, is_pedal_down, sustained_notes, notes_on)
    ELSE IF key \in sustained_notes
         THEN Encoder(evs \o <<PerformanceEvent("NoteOff", key),
                               PerformanceEvent("Velocity", vel),
                               PerformanceEvent("NoteOn", key)>>,
                      is_pedal_down, sustained_notes \ {key}, notes_on)
         ELSE IF key \notin notes_on
         THEN Encoder(evs \o <<PerformanceEvent("Velocity", vel),
                               PerformanceEvent("NoteOn", key)>>,
                      is_pedal_down, sustained_notes, notes_on \cup {key})
         ELSE Encoder(evs, is_pedal_down, sustained_notes, notes_on)

\* OnPedal without sustained_notes.clear().
OnPedal_not_clearing(value, evs, order) ==
    IF is_pedal_down /\ value < 64
    THEN LET r == ReleaseSustained(order, 1, evs, notes_on)
         IN  Encoder(r.events, value >= 64, sustained_notes, r.notes_on)
    ELSE Encoder(evs, value >= 64, sustained_notes, notes_on)

\* lines 250-260: MidiMessage::Controller with controller == 64, the sustained
\* keys visited in the given order.
OnPedal(value, evs, order) ==
    IF is_pedal_down /\ value < 64
    THEN LET r == ReleaseSustained(order, 1, evs, notes_on)
         IN  Encoder(r.events, value >= 64, {}, r.notes_on)
    ELSE Encoder(evs, value >= 64, sustained_notes, notes_on)

\* lines 226-264: the match on event.kind; the set of its possible outcomes.
Match(kind, evs) ==
    IF kind.type = "NoteOn" THEN {OnNoteOn(kind.d1, kind.d2, evs)}
    ELSE IF kind.type = "Controller" /\ kind.d1 = 64
    THEN {OnPedal(kind.d2, evs, order) : order \in Orders(sustained_notes)}
    ELSE {Encoder(evs, is_pedal_down, sustained_notes, notes_on)}

(***************************************************************************)
(* Inputs of the encoder.                                                  *)
(***************************************************************************)
MaxEvents == 8
SmfHeaders ==
    { Header("Metrical", "Parallel", 480, 500000),
      Header("Metrical", "SingleTrack", 1, 500000),
      Header("Metrical", "Parallel", 1, 16777215),
      Header("Timecode", "Parallel", 480, 500000),
      Header("Metrical", "Sequential", 480, 500000),
      Header("Metrical", "SingleTrack", 480, NoTempo),
      Header("Metrical", "Parallel", 480, 0) }
EncKeys == {60, 61}
NoteVels == {0, 80}
PedalValues == {63, 64}
EncKinds ==
    {NoteOnMsg(k, v) : k \in EncKeys, v \in NoteVels}
        \cup {ControllerMsg(64, v) : v \in PedalValues}
        \cup {NoteOffMsg(60, 0), ControllerMsg(7, 100), MetaMsg}
EncDeltas(tps) == {0, tps, tps + 1}
TrackEvents(tps) == {TrackEvent(d, k) : d \in EncDeltas(tps), k \in EncKinds}

EncInit ==
    /\ smf \in SmfHeaders
    /\ ticks_per_sec = 0
    /\ is_pedal_down = FALSE
    /\ events = <<>>
    /\ sustained_notes = {}
    /\ notes_on = {}
    /\ previous_ticks = 0
    /\ event = NoEvent
    /\ events_len_start = 0
    /\ epc = "start"
    /\ MergeIdle
    /\ CodecIdle
    /\ ArithIdle

Panic ==
    /\ epc' = "panic"
    /\ UNCHANGED <<smf, ticks_per_sec, is_pedal_down, events, sustained_notes, notes_on,
                   previous_ticks, event, events_len_start>>

\* Setup without the Sequential arm of get_tracks.
Setup_accepting_sequential ==
    /\ epc = "start"
    /\ \E overflow_checks \in BOOLEAN :
        IF \/ smf.timing # "Metrical"
           \/ smf.tempo = NoTempo
           \/ smf.tempo = 0
           \/ (overflow_checks /\ MulMillionOverflows(smf.ticks_per_beat))
        THEN Panic
        ELSE /\ epc' = "loop"
             /\ ticks_per_sec' = TicksPerSec(smf.ticks_per_beat, smf.tempo)
             /\ UNCHANGED <<smf, is_pedal_down, events, sustained_notes, notes_on,
                            previous_ticks, event, events_len_start>>
    /\ UNCHANGED <<mergeVars, codecVars, arithVars>>

\* lines 175-197: the header checks, get_tracks, the first Tempo, ticks_per_sec.
\* smf.tempo stands for the first Tempo of the stream get_tracks returns; the
\* loop then draws that stream one track event at a time.
Setup ==
    /\ epc = "start"
    /\ \E overflow_checks \in BOOLEAN :
        IF \/ smf.timing # "Metrical"
           \/ smf.format = "Sequential"
           \/ smf.tempo = NoTempo
           \/ smf.tempo = 0
           \/ (overflow_checks /\ MulMillionOverflows(smf.ticks_per_beat))
        THEN Panic
        ELSE /\ epc' = "loop"
             /\ ticks_per_sec' = TicksPerSec(smf.ticks_per_beat, smf.tempo)
             /\ UNCHANGED <<smf, is_pedal_down, events, sustained_notes, notes_on,
                            previous_ticks, event, events_len_start>>
    /\ UNCHANGED <<mergeVars, codecVars, arithVars>>

\* Step without lines 265-267: previous_ticks survives an emitted event.
Step_keeping_previous_ticks(ev) ==
    /\ epc = "loop"
    /\ Len(events) < MaxEvents
    /\ \E overflow_checks \in Builds(ev.delta + previous_ticks) :
        LET timed == TimeStep(events, previous_ticks, ev.delta, ticks_per_sec, overflow_checks)
        IN  IF timed.panic
            THEN Panic
            ELSE \E out \in Match(ev.kind, timed.events) :
                 /\ event' = ev
                 /\ events_len_start' = Len(timed.events)
                 /\ events' = out.events
                 /\ is_pedal_down' = out.is_pedal_down
                 /\ sustained_notes' = out.sustained_notes
                 /\ notes_on' = out.notes_on
                 /\ previous_ticks' = timed.previous_ticks
                 /\ UNCHANGED <<smf, ticks_per_sec, epc>>
    /\ UNCHANGED <<mergeVars, codecVars, arithVars>>

\* lines 199-268: one iteration of the loop, on track event `ev`.  The
\* stream may be of any length; the model follows it while the output is
\* shorter than MaxEvents.
Step(ev) ==
    /\ epc = "loop"
    /\ Len(events) < MaxEvents
    /\ \E overflow_checks \in Builds(ev.delta + previous_ticks) :
        LET timed == TimeStep(events, previous_ticks, ev.delta, ticks_per_sec, overflow_checks)
        IN  IF timed.panic
            THEN Panic
            ELSE \E out \in Match(ev.kind, timed.events) :
                 /\ event' = ev
                 /\ events_len_start' = Len(timed.events)
                 /\ events' = out.events
                 /\ is_pedal_down' = out.is_pedal_down
                 /\ sustained_notes' = out.sustained_notes
                 /\ notes_on' = out.notes_on
                 /\ previous_ticks' =
                        IF Len(out.events) > Len(timed.events) THEN 0 ELSE timed.previous_ticks
                 /\ UNCHANGED <<smf, ticks_per_sec, epc>>
    /\ UNCHANGED <<mergeVars, codecVars, arithVars>>

\* line 270: the stream has ended and `events` is returned.
Return ==
    /\ epc = "loop"
    /\ epc' = "returned"
    /\ UNCHANGED <<smf, ticks_per_sec, is_pedal_down, events, sustained_notes, notes_on,
                   previous_ticks, event, events_len_start>>
    /\ UNCHANGED <<mergeVars, codecVars, arithVars>>

Next ==
    \/ Setup
    \/ \E ev \in TrackEvents(ticks_per_sec) : Step(ev)
    \/ Return
Spec == EncInit /\ [][Next]_vars

(***************************************************************************)
(* The u32 arithmetic of lib.rs on its own: ticks_to_timeshift (23-26) and *)
(* the ticks_per_sec expression (191), each evaluated once on operands     *)
(* drawn by ArithInit.                                                     *)
(***************************************************************************)
MaxChunk == 12
\* 42949672 is the last chunk whose product with 100 fits u32.
ArithTicksPerSec == {1, 2, 50, 960, 42949672, 42949673, 50000000, 268435455}
TimeshiftArgs ==
    {a \in ((1..MaxChunk) \cup ArithTicksPerSec) \X ArithTicksPerSec : a[1] <= a[2]}
\* 4294 is the last ticks_per_beat whose product with 1_000_000 fits u32.
ArithTicksPerBeat == {1, 2, 480, 960, 4294, 4295, 32767}
ArithTempos == {2, 1000, 500000, 16777215}
TempoArgs == ArithTicksPerBeat \X ArithTempos

Returns(v) == [tag |-> "return", v |-> v]
Panics == [tag |-> "panic", v |-> 0]

ArithInit ==
    /\ \/ fn = "ticks_to_timeshift" /\ args \in TimeshiftArgs
       \/ fn = "ticks_per_sec" /\ args \in TempoArgs
    /\ ret = NoReturn
    /\ apc = "call"
    /\ MergeIdle
    /\ CodecIdle
    /\ EncIdle

\* lines 23-26: ticks_to_timeshift(args[1], args[2]).
TicksToTimeshift ==
    /\ apc = "call"
    /\ fn = "ticks_to_timeshift"
    /\ \E overflow_checks \in BOOLEAN :
        ret' = IF TimeshiftPanics(args[1], args[2], overflow_checks) THEN Panics
               ELSE Returns(ticks_to_timeshift(args[1], args[2]))
    /\ apc' = "done"
    /\ UNCHANGED <<fn, args, mergeVars, codecVars, encVars>>

\* line 191: (args[1] as u32) * 1_000_000 / args[2].
TicksPerSecExpr ==
    /\ apc = "call"
    /\ fn = "ticks_per_sec"
    /\ \E overflow_checks \in BOOLEAN :
        ret' = IF args[2] = 0 \/ (overflow_checks /\ MulMillionOverflows(args[1]))
               THEN Panics
               ELSE Returns(TicksPerSec(args[1], args[2]))
    /\ apc' = "done"
    /\ UNCHANGED <<fn, args, mergeVars, codecVars, encVars>>

ArithNext == TicksToTimeshift \/ TicksPerSecExpr
SpecArith == ArithInit /\ [][ArithNext]_vars

(***************************************************************************)
(* midi_to_events of main.rs (27-122), the encoder the binary runs.  It    *)
(* has the state of the lib.rs encoder, held in the same variables;        *)
(* previous_ticks holds its previous_t, an Option<u32>, and                *)
(* events_len_start, which it does not have, stays 0.                      *)
(***************************************************************************)
None == [some |-> FALSE, t |-> 0]
Some(t) == [some |-> TRUE, t |-> t]

\* main.rs 59-72: the chunking loop; line 62 is the expression of
\* ticks_to_timeshift, line 63 keeps its low 8 bits.
RECURSIVE MainTimeLoop(_, _, _, _, _, _)
MainTimeLoop(evs, prev, t, t_chunk, tps, overflow_checks) ==
    IF t = 0 THEN [events |-> evs, t_chunk |-> t_chunk, panic |-> FALSE]
    ELSE LET chunk == IF t > tps THEN tps ELSE t
         IN  IF TimeshiftPanics(chunk, tps, overflow_checks) \/ (prev.some /\ Len(evs) = 0)
             THEN [events |-> evs, t_chunk |-> t_chunk, panic |-> TRUE]
             ELSE LET time_event ==
                          PerformanceEvent("TimeShift", ticks_to_timeshift(chunk, tps) % 256)
                  IN  MainTimeLoop(IF ~prev.some THEN Append(evs, time_event)
                                   ELSE [evs EXCEPT ![Len(evs)] = time_event],
                                   None, t - chunk, chunk, tps, overflow_checks)

\* main.rs 52-74: the time step of one track event.
MainTimeStep(evs, prev, delta, tps, overflow_checks) ==
    IF delta > 0
    THEN LET r == MainTimeLoop(evs, prev, delta + (IF prev.some THEN prev.t ELSE 0), 0, tps,
                               overflow_checks)
         IN  [events |-> r.events, previous_t |-> Some(r.t_chunk), panic |-> r.panic]
    ELSE [events |-> evs, previous_t |-> prev, panic |-> FALSE]

MainEncoder(evs, pedal, sustained, on, prev) ==
    [events |-> evs, is_pedal_down |-> pedal, sustained_notes |-> sustained,
     notes_on |-> on, previous_t |-> prev]

\* main.rs 81-101: MidiMessage::NoteOn { key, vel }.
MainOnNoteOn(key, vel, evs, prev) ==
    IF vel = 0
    THEN IF is_pedal_down
         THEN MainEncoder(evs, is_pedal_down, sustained_notes \cup {key}, notes_on, prev)
         ELSE MainEncoder(Append(evs, PerformanceEvent("NoteOff", key)), is_pedal_down,
                          sustained_notes, notes_on \ {key}, None)
    ELSE LET held == key \in sustained_notes
             released == IF held THEN Append(evs, PerformanceEvent("NoteOff", key)) ELSE evs
         IN  MainEncoder(released \o <<PerformanceEvent("Velocity", vel),
                                       PerformanceEvent("NoteOn", key)>>,
                         is_pedal_down, sustained_notes \ {key}, notes_on \cup {key}, None)

\* main.rs 102-114: MidiMessage::Controller { 64, value }; `order` is the
\* order in which the HashSet hands out the sustained keys.
MainOnPedal(value, evs, prev, order) ==
    IF is_pedal_down /\ value < 64
    THEN MainEncoder(evs \o [i \in 1..Len(order) |-> PerformanceEvent("NoteOff", order[i])],
                     value >= 64, {}, notes_on \ sustained_notes,
                     IF sustained_notes # {} THEN None ELSE prev)
    ELSE MainEncoder(evs, value >= 64, sustained_notes, notes_on, prev)

\* main.rs 76-118: the outcomes of the match on the kind of a track event.
MainMatch(kind, evs, prev) ==
    IF kind.type = "NoteOn" THEN {MainOnNoteOn(kind.d1, kind.d2, evs, prev)}
    ELSE IF kind.type = "Controller" /\ kind.d1 = 64
    THEN {MainOnPedal(kind.d2, evs, prev, order) : order \in Orders(sustained_notes)}
    ELSE {MainEncoder(evs, is_pedal_down, sustained_notes, notes_on, prev)}

MaxMainEvents == 5
MainInit ==
    /\ smf \in SmfHeaders
    /\ ticks_per_sec = 0
    /\ is_pedal_down = FALSE
    /\ events = <<>>
    /\ sustained_notes = {}
    /\ notes_on = {}
    /\ previous_ticks = None
    /\ event = NoEvent
    /\ events_len_start = 0
    /\ epc = "start"
    /\ MergeIdle
    /\ CodecIdle
    /\ ArithIdle

\* main.rs 28-49: the timing check, the first Tempo of smf.tracks[0],
\* ticks_per_sec; and the indexing smf.tracks[1] of line 51, which panics for
\* a file of one track (format SingleTrack).  The header format is not read.
MainSetup ==
    /\ epc = "start"
    /\ \E overflow_checks \in BOOLEAN :
        IF \/ smf.timing # "Metrical"
           \/ smf.tempo = NoTempo
           \/ smf.tempo = 0
           \/ (overflow_checks /\ MulMillionOverflows(smf.ticks_per_beat))
           \/ smf.format = "SingleTrack"
        THEN Panic
        ELSE /\ epc' = "loop"
             /\ ticks_per_sec' = TicksPerSec(smf.ticks_per_beat, smf.tempo)
             /\ UNCHANGED <<smf, is_pedal_down, events, sustained_notes, notes_on,
                            previous_ticks, event, events_len_start>>
    /\ UNCHANGED <<mergeVars, codecVars, arithVars>>

\* main.rs 51-119: one iteration of the loop, on track event `ev` of
\* smf.tracks[1], followed while the output is shorter than MaxMainEvents.
MainStep(ev) ==
    /\ epc = "loop"
    /\ Len(events) < MaxMainEvents
    /\ \E overflow_checks \in Builds(ev.delta + (IF previous_ticks.some THEN previous_ticks.t ELSE 0)) :
        LET timed == MainTimeStep(events, previous_ticks, ev.delta, ticks_per_sec,
                                  overflow_checks)
        IN  IF timed.panic
            THEN Panic
            ELSE \E out \in MainMatch(ev.kind, timed.events, timed.previous_t) :
                 /\ event' = ev
                 /\ events' = out.events
                 /\ is_pedal_down' = out.is_pedal_down
                 /\ sustained_notes' = out.sustained_notes
                 /\ notes_on' = out.notes_on
                 /\ previous_ticks' = out.previous_t
                 /\ UNCHANGED <<smf, ticks_per_sec, events_len_start, epc>>
    /\ UNCHANGED <<mergeVars, codecVars, arithVars>>

\* main.rs 121: the track has ended and `events` is returned.
MainReturn ==
    /\ epc = "loop"
    /\ epc' = "returned"
    /\ UNCHANGED <<smf, ticks_per_sec, is_pedal_down, events, sustained_notes, notes_on,
                   previous_ticks, event, events_len_start>>
    /\ UNCHANGED <<mergeVars, codecVars, arithVars>>

MainNext ==
    \/ MainSetup
    \/ \E ev \in TrackEvents(ticks_per_sec) : MainStep(ev)
    \/ MainReturn
SpecMain == MainInit /\ [][MainNext]_vars

(***************************************************************************)
(* Claims about the codec.                                                 *)
(***************************************************************************)
\* C8: for every token t in 0..387, index_to_event followed by
\* event_to_index returns t.
C8_RoundTrip ==
    (cpc = "encoded" /\ idx \in 0..387) => index = idx

\* C8 restricted to the tokens below 356 (NoteOn, NoteOff, TimeShift), where
\* the round trip is the identity.
C8_RoundTripBelowVelocity ==
    (cpc = "encoded" /\ idx \in 0..355) => index = idx

\* C9: index_to_event returns an error value for every token below 0 or above
\* 387, and for a token t in 0..387 the event NoteOn(t), NoteOff(t - 128),
\* TimeShift(t - 256) or Velocity(t - 356) of its range.
C9_InverseMapTotal ==
    cpc \in {"decoded", "encoded"} =>
        /\ (idx < 0 \/ idx > 387) => decoded.tag = "Err"
        /\ idx \in 0..127 => decoded = Ok(PerformanceEvent("NoteOn", idx))
        /\ idx \in 128..255 => decoded = Ok(PerformanceEvent("NoteOff", idx - 128))
        /\ idx \in 256..355 => decoded = Ok(PerformanceEvent("TimeShift", idx - 256))
        /\ idx \in 356..387 => decoded = Ok(PerformanceEvent("Velocity", idx - 356))

\* The first token above the vocabulary has been rejected.
C9_Witness == cpc = "decoded" /\ idx = 388 /\ decoded = Err

(***************************************************************************)
(* Claims about the encoder of lib.rs.                                     *)
(***************************************************************************)
\* The tokens of a sequence of performance events.
Tokens(evs) == [i \in 1..Len(evs) |-> event_to_index(evs[i])]
\* The events pushed by the match of the current iteration.
Emitted == SubSeq(events, events_len_start + 1, Len(events))
EmittedIn(e) == \E i \in 1..Len(Emitted) : Emitted[i] = e
\* A step of the loop: an iteration that did not panic.
IsStep == epc = "loop" /\ epc' = "loop" /\ vars' # vars

\* C4: with the pedal up and no deltas, a NoteOn(k, v > 0) message that starts
\* key k, immediately followed by a NoteOff(k, 0) message, yields exactly the
\* tokens 356 + v \div 4, k, k + 128.
C4_NoteOnThenNoteOffTokens ==
    [][\A k \in EncKeys, v \in NoteVels \ {0} :
        ( /\ IsStep
          /\ ~is_pedal_down
          /\ event = TrackEvent(0, NoteOnMsg(k, v))
          /\ Tokens(Emitted) = <<356 + (v \div 4), k>>
          /\ event' = TrackEvent(0, NoteOffMsg(k, 0)) )
        => Tokens(events') = Tokens(events) \o <<k + 128>>]_vars

\* C4 with the release given as a velocity-0 NoteOn message, which the code
\* does handle: the three tokens are produced.
C4_NoteOnThenZeroVelocityTokens ==
    [][\A k \in EncKeys, v \in NoteVels \ {0} :
        ( /\ IsStep
          /\ ~is_pedal_down
          /\ event = TrackEvent(0, NoteOnMsg(k, v))
          /\ Tokens(Emitted) = <<356 + (v \div 4), k>>
          /\ event' = TrackEvent(0, NoteOnMsg(k, 0)) )
        => Tokens(events') = Tokens(events) \o <<k + 128>>]_vars

\* C5: once a sounding key k is released (velocity-0 NoteOn) with the pedal
\* down, no NoteOff(k) is emitted at that message nor at any later one until a
\* controller-64 value below 64 or a NoteOn(k, v > 0) arrives; the
\* controller-64 message with a value below 64 emits NoteOff(k) itself.
C5_DeferredRelease ==
    [][\A k \in EncKeys :
        LET noteoff == PerformanceEvent("NoteOff", k)
            pedal_up == event'.kind.type = "Controller" /\ event'.kind.d1 = 64
                            /\ event'.kind.d2 < 64
            struck == event'.kind.type = "NoteOn" /\ event'.kind.d1 = k
                            /\ event'.kind.d2 > 0
        IN  /\ (IsStep /\ is_pedal_down /\ k \in notes_on /\ event'.kind = NoteOnMsg(k, 0))
                => (k \in sustained_notes' /\ ~EmittedIn(noteoff)')
            /\ (IsStep /\ k \in sustained_notes /\ ~pedal_up /\ ~struck)
                => (k \in sustained_notes' /\ ~EmittedIn(noteoff)')
            /\ (IsStep /\ k \in sustained_notes /\ pedal_up)
                => (k \notin sustained_notes' /\ EmittedIn(noteoff)')]_vars

\* A pedal release has just emitted the deferred NoteOff(60).
C5_Witness ==
    /\ epc = "loop"
    /\ event.kind = ControllerMsg(64, 63)
    /\ EmittedIn(PerformanceEvent("NoteOff", 60))

\* C6: sustained_notes is a subset of notes_on after every processed message.
C6_SustainedSubsetOfNotesOn == sustained_notes \subseteq notes_on

\* Both keys are sustained, and a velocity-0 NoteOn has just been processed.
C6_Witness ==
    /\ epc = "loop"
    /\ sustained_notes = EncKeys
    /\ event.kind.type = "NoteOn" /\ event.kind.d2 = 0

\* C7: after every processed message, sustained_notes is empty whenever
\* is_pedal_down is false.
C7_NoSustainWithPedalUp == ~is_pedal_down => sustained_notes = {}

\* The pedal has just gone up and released both sustained keys.
C7_Witness ==
    /\ epc = "loop"
    /\ ~is_pedal_down
    /\ event.kind.type = "Controller" /\ event.kind.d1 = 64
    /\ EmittedIn(PerformanceEvent("NoteOff", 60))
    /\ EmittedIn(PerformanceEvent("NoteOff", 61))

\* C10: a message whose delta equals ticks_per_sec (at least 1), arriving with
\* no pending ticks, yields exactly one TimeShift event, of bucket 99.
C10_FullSecondIsBucket99 ==
    [][( /\ IsStep
         /\ ticks_per_sec >= 1
         /\ previous_ticks = 0
         /\ event'.delta = ticks_per_sec )
       => ( /\ events_len_start' = Len(events) + 1
            /\ SubSeq(events', 1, Len(events)) = events
            /\ events'[Len(events) + 1] = PerformanceEvent("TimeShift", 99) )]_vars

\* C10 for the header of the claim's example (480 ticks per quarter note,
\* tempo 500000, so 960 ticks per second): one TimeShift(99).
C10_At960TicksPerSec ==
    [][( /\ IsStep
         /\ ticks_per_sec = 960
         /\ previous_ticks = 0
         /\ event'.delta = ticks_per_sec )
       => ( /\ events_len_start' = Len(events) + 1
            /\ SubSeq(events', 1, Len(events)) = events
            /\ events'[Len(events) + 1] = PerformanceEvent("TimeShift", 99) )]_vars

\* C12: when the header format is Sequential, or the timing is not Metrical,
\* or the stream holds no Tempo message, the run ends in a panic before any
\* performance event is produced, and no event list is returned.
C12_AllOrNothing ==
    (smf.format = "Sequential" \/ smf.timing # "Metrical" \/ smf.tempo = NoTempo) =>
        (epc \in {"start", "panic"} /\ events = <<>>)

\* A Sequential file has been refused.
C12_Witness == epc = "panic" /\ smf.format = "Sequential" /\ events = <<>>

\* The event sequences one more track event can leave behind.
Outputs(ev) ==
    LET timed == TimeStep(events, previous_ticks, ev.delta, ticks_per_sec, FALSE)
    IN  IF timed.panic THEN {} ELSE {out.events : out \in Match(ev.kind, timed.events)}

\* C13: two runs on the same stream and tempo produce the same event
\* sequence: whatever has been processed so far, the next track event extends
\* the output in one way only, a pedal release with two or more keys in
\* sustained_notes included.
C13_Deterministic ==
    epc = "loop" =>
        \A ev \in TrackEvents(ticks_per_sec) : Cardinality(Outputs(ev)) <= 1

\* C14: a NoteOn(k, velocity > 0) for a key k that is in notes_on and not in
\* sustained_notes emits a Velocity event followed by NoteOn(k), and no
\* NoteOff(k).
C14_Retrigger ==
    [][( /\ IsStep
         /\ event'.kind.type = "NoteOn" /\ event'.kind.d2 > 0
         /\ event'.kind.d1 \in notes_on
         /\ event'.kind.d1 \notin sustained_notes )
       => LET emitted == SubSeq(events', events_len_start' + 1, Len(events'))
          IN  /\ Len(emitted) = 2
              /\ emitted[1].type = "Velocity"
              /\ emitted[2] = PerformanceEvent("NoteOn", event'.kind.d1)]_vars

\* C15: every Velocity event emitted for a NoteOn(k, v) with v > 0 carries
\* the bucket floor(v / 4), a value in 0..31.
C15_VelocityIsBucket ==
    [][( /\ IsStep
         /\ event'.kind.type = "NoteOn" /\ event'.kind.d2 > 0 )
       => \A i \in (events_len_start' + 1)..Len(events') :
              events'[i].type = "Velocity" =>
                  /\ events'[i].v = event'.kind.d2 \div 4
                  /\ events'[i].v \in 0..31]_vars

\* The number of TimeShift events that end the first m events of evs.
ShiftsEndingAt(evs, m) ==
    CHOOSE n \in 0..m :
        /\ \A i \in (m - n + 1)..m : evs[i].type = "TimeShift"
        /\ n < m => evs[m - n].type # "TimeShift"
RunEndingAt(evs, m) == SubSeq(evs, m - ShiftsEndingAt(evs, m) + 1, m)
\* The run of TimeShift events after the last non-time event of the output.
TrailingRun == RunEndingAt(events, Len(events))
\* The ticks the trailing run stands for: full seconds but for its last
\* chunk, which previous_ticks holds.
PendingTicks ==
    IF Len(TrailingRun) = 0 THEN 0
    ELSE (Len(TrailingRun) - 1) * ticks_per_sec + previous_ticks
\* The TimeShift events of d ticks cut into chunks of ticks_per_sec ticks,
\* the remainder last.
ChunkEvents(d, tps) ==
    [i \in 1..((d + tps - 1) \div tps) |->
        PerformanceEvent("TimeShift",
            ticks_to_timeshift(IF i * tps <= d THEN tps ELSE d % tps, tps))]

\* C16: with ticks_per_sec >= 1, the run of TimeShift events after the last
\* non-time event stands for chunks of 1..ticks_per_sec ticks, all but the
\* last equal to ticks_per_sec, whose sum is the sum of the deltas processed
\* since that event was emitted: the run is the chunking of PendingTicks, the
\* last chunk being previous_ticks, and each message adds exactly its delta
\* to the ticks the run before its own events stands for.
C16_MergedGapsKeepTicks ==
    /\ []((epc = "loop" /\ ticks_per_sec >= 1) =>
            /\ TrailingRun = ChunkEvents(PendingTicks, ticks_per_sec)
            /\ Len(TrailingRun) = 0 => previous_ticks = 0
            /\ Len(TrailingRun) > 0 => previous_ticks \in 1..ticks_per_sec)
    /\ [][(IsStep /\ ticks_per_sec >= 1) =>
            /\ RunEndingAt(events', events_len_start')
                   = ChunkEvents(PendingTicks + event'.delta, ticks_per_sec)
            /\ PendingTicks' = IF Len(events') > events_len_start' THEN 0
                               ELSE PendingTicks + event'.delta]_vars

\* Two messages a second and a tick apart, the second gap merged into the
\* first: three TimeShift events for 2 * ticks_per_sec + 2 ticks.
C16_Witness ==
    /\ epc = "loop" /\ ticks_per_sec = 2
    /\ event.delta = 3
    /\ Len(TrailingRun) = 3
    /\ PendingTicks = 6

\* C17: whenever the time step would overwrite instead of append
\* (previous_ticks # 0), the output is non-empty and ends in a TimeShift
\* event, and an iteration changes no event already in the output other than
\* that last TimeShift, which it replaces by a TimeShift: no NoteOn, NoteOff
\* or Velocity event is overwritten or removed.
C17_OverwriteOnlyTimeShift ==
    /\ []((epc = "loop" /\ previous_ticks # 0) =>
            (Len(events) > 0 /\ events[Len(events)].type = "TimeShift"))
    /\ [][IsStep =>
            /\ Len(events') >= Len(events)
            /\ \A i \in 1..Len(events) :
                   events'[i] # events[i] =>
                       /\ i = Len(events)
                       /\ previous_ticks # 0
                       /\ events[i].type = "TimeShift"
                       /\ events'[i].type = "TimeShift"]_vars

\* Two one-second gaps in a row at 960 ticks per second: the second time
\* step has overwritten the TimeShift of the first and appended one more.
C17_Witness ==
    /\ epc = "loop" /\ ticks_per_sec = 960
    /\ event.delta = 960
    /\ previous_ticks = 960
    /\ Len(TrailingRun) = 2

\* The NoteOn and NoteOff events of key k in a sequence of events.
KeyEvents(evs, k) ==
    SelectSeq(evs, LAMBDA e : e.type \in {"NoteOn", "NoteOff"} /\ e.v = k)

\* C20: for every key k the NoteOn(k) and NoteOff(k) events of the output
\* strictly alternate, starting with NoteOn(k), and k is in notes_on exactly
\* when the last of them is NoteOn(k).
C20_NoteEventsAlternate ==
    epc \in {"loop", "returned"} =>
        /\ notes_on \subseteq EncKeys
        /\ \A i \in 1..Len(events) :
               events[i].type \in {"NoteOn", "NoteOff"} => events[i].v \in EncKeys
        /\ \A k \in EncKeys :
               LET of_k == KeyEvents(events, k)
               IN  /\ \A i \in 1..Len(of_k) :
                          of_k[i].type = IF i % 2 = 1 THEN "NoteOn" ELSE "NoteOff"
                   /\ k \in notes_on <=> Len(of_k) % 2 = 1

\* Key 60 has been struck, released and struck again, and is sounding.
C20_Witness ==
    /\ epc = "loop"
    /\ Len(KeyEvents(events, 60)) = 3
    /\ 60 \in notes_on

(***************************************************************************)
(* Claims about the u32 arithmetic.                                        *)
(***************************************************************************)
\* floor((chunk * 100 - 50) / ticks_per_sec) over the integers, chunk >= 1.
ExactTimeshift(chunk, tps) == WideDiv(WrappingSub50(Mul100(chunk)), tps)

\* C11: for every ticks_per_sec >= 1 and every chunk in 1..ticks_per_sec,
\* ticks_to_timeshift(chunk, ticks_per_sec) returns
\* floor((chunk * 100 - 50) / ticks_per_sec), the value lies in 0..99, and
\* chunk * 100 - 50 does not underflow.
C11_TimeshiftInRange ==
    (apc = "done" /\ fn = "ticks_to_timeshift" /\ 1 <= args[1] /\ args[1] <= args[2]) =>
        /\ ret.tag = "return"
        /\ ret.v = ExactTimeshift(args[1], args[2])
        /\ ret.v \in 0..99
        /\ ~Sub50Underflows(WrapU32(Mul100(args[1])))

\* C11 for the chunks whose product with 100 fits u32 (chunk <= 42949672).
C11_TimeshiftInRangeWithinU32 ==
    (apc = "done" /\ fn = "ticks_to_timeshift" /\ 1 <= args[1] /\ args[1] <= args[2]
        /\ ~Mul100Overflows(args[1])) =>
        /\ ret.tag = "return"
        /\ ret.v = ExactTimeshift(args[1], args[2])
        /\ ret.v \in 0..99
        /\ ~Sub50Underflows(WrapU32(Mul100(args[1])))

\* floor(ticks_per_beat * 1000000 / us_per_beat) over the integers, as the
\* pair (hi, lo) of value 64 * hi + lo with lo < 64: with 1000000 = 64 * 15625
\* and x = ticks_per_beat * 15625, hi = x / us and lo = (64 * (x mod us)) / us.
ExactTicksPerSec(ticks_per_beat, us_per_beat) ==
    LET x == ticks_per_beat * 15625
    IN  [hi |-> x \div us_per_beat, lo |-> (64 * (x % us_per_beat)) \div us_per_beat]

\* C18: for every ticks_per_quarter_note in 1..32767 and every first Tempo in
\* 1..16777215, the u32 computation of ticks_per_sec returns
\* floor(ticks_per_quarter_note * 1000000 / microseconds_per_quarter_note):
\* the product does not overflow.
C18_TicksPerSecExact ==
    (apc = "done" /\ fn = "ticks_per_sec"
        /\ args[1] \in 1..32767 /\ args[2] \in 1..16777215) =>
        /\ ret.tag = "return"
        /\ ~MulMillionOverflows(args[1])
        /\ ret.v \div 64 = ExactTicksPerSec(args[1], args[2]).hi
        /\ ret.v % 64 = ExactTicksPerSec(args[1], args[2]).lo

\* C18 for the resolutions whose product with 1000000 fits u32
\* (ticks_per_quarter_note <= 4294).
C18_TicksPerSecExactWithinU32 ==
    (apc = "done" /\ fn = "ticks_per_sec"
        /\ args[1] \in 1..4294 /\ args[2] \in 1..16777215) =>
        /\ ret.tag = "return"
        /\ ret.v \div 64 = ExactTicksPerSec(args[1], args[2]).hi
        /\ ret.v % 64 = ExactTicksPerSec(args[1], args[2]).lo

(***************************************************************************)
(* Claims about the encoder of main.rs.                                    *)
(***************************************************************************)
\* C19: in the encoder of main.rs, sustained_notes is a subset of notes_on
\* after every processed message, also after a velocity-0 NoteOn for a key
\* that is not sounding while the pedal is down.
C19_MainSustainedSubsetOfNotesOn ==
    epc \in {"loop", "returned"} => sustained_notes \subseteq notes_on

====
